---- MODULE Spec2Model ----
(***************************************************************************)
(* Model of the GainMeter audio processor (Source/PluginProcessor.cpp,     *)
(* Source/PluginProcessor.h) and of the editor callbacks that touch it     *)
(* (Source/PluginEditor.cpp, Source/PluginEditor.h).                       *)
(*                                                                         *)
(* Numbers.  Decibel values are integers in hundredths of a dB (0.01 dB).  *)
(* Linear gains and samples are exact rationals [n |-> Int, d |-> Nat],    *)
(* kept in lowest terms, so that "==" on floats is equality of records.    *)
(* Float rounding is not modelled: arithmetic is exact.                    *)
(***************************************************************************)
EXTENDS Integers, Sequences, FiniteSets, TLC

\* ------------------------------------------------------------------ bounds
\* Number of processBlock invocations explored in one behaviour.
MaxBlocks == 2
\* Largest buffer.getNumSamples() the host delivers.
MaxFrames == 2

\* --------------------------------------------------------- exact arithmetic
Abs(x) == IF x < 0 THEN -x ELSE x

RECURSIVE GCD(_, _)
GCD(a, b) == IF b = 0 THEN a ELSE GCD(b, a % b)

\* The rational n/d (d > 0) in lowest terms.
Rat(n, d) == LET g == GCD(Abs(n), d) IN [n |-> n \div g, d |-> d \div g]

RZero == Rat(0, 1)

RAdd(a, b) ==
    LET g == GCD(a.d, b.d)
    IN  Rat(a.n * (b.d \div g) + b.n * (a.d \div g), (a.d \div g) * b.d)

RNeg(a) == [n |-> -a.n, d |-> a.d]

RSub(a, b) == RAdd(a, RNeg(b))

RMul(a, b) ==
    LET g1 == GCD(Abs(a.n), b.d)
        g2 == GCD(Abs(b.n), a.d)
    IN  Rat((a.n \div g1) * (b.n \div g2), (a.d \div g2) * (b.d \div g1))

\* a / k for an integer k > 0.
RDivInt(a, k) ==
    LET g == GCD(Abs(a.n), k) IN Rat(a.n \div g, a.d * (k \div g))

RAbs(a) == [n |-> Abs(a.n), d |-> a.d]

RLess(a, b) ==
    LET g == GCD(a.d, b.d)
    IN  a.n * (b.d \div g) < b.n * (a.d \div g)

RLeq(a, b) == a = b \/ RLess(a, b)

\* juce::jmax
jmax(a, b) == IF RLess(a, b) THEN b ELSE a

\* ------------------------------------------------------- parameter range
\* juce::NormalisableRange<float>(-60.0f, 12.0f, 0.1f), in hundredths of a dB.
RangeStart == -6000
RangeEnd == 1200
RangeInterval == 10
DefaultGain == 0

\* NormalisableRange::snapToLegalValue: round to the 0.1 dB grid counted
\* from the range start, then clamp to [start, end].
snapToLegalValue(v) ==
    LET s == RangeStart + RangeInterval *
                 (((v - RangeStart) * 2 + RangeInterval) \div (2 * RangeInterval))
    IN  IF s <= RangeStart THEN RangeStart
        ELSE IF s >= RangeEnd THEN RangeEnd ELSE s

\* juce::Decibels::decibelsToGain (minusInfinityDb = -100): 10^(dB/20),
\* tabulated to three decimals at the parameter values the model's writers
\* can store; 0 at or below -100 dB.
MinusInfinityDb == -10000

decibelsToGain(db) ==
    IF db <= MinusInfinityDb THEN RZero
    ELSE CASE db = -6000 -> Rat(1, 1000)
           [] db = -2000 -> Rat(1, 10)
           [] db = 0     -> Rat(1, 1)
           [] db = 1200  -> Rat(3981, 1000)

\* juce::Decibels::gainToDecibels (minusInfinityDb = -100):
\* gain > 0 ? max(-100, 20 log10(gain)) : -100.  The logarithm is exact on
\* the grid below; a gain strictly between two grid points yields the lower
\* grid point plus 0.01 dB, which keeps every order comparison with a grid
\* value (in particular with -60 dB and +12 dB) exact.
DbGrid ==
    << [db |-> -8000, g |-> Rat(1, 10000)],
       [db |-> -6000, g |-> Rat(1, 1000)],
       [db |-> -4000, g |-> Rat(1, 100)],
       [db |-> -2000, g |-> Rat(1, 10)],
       [db |-> 0,     g |-> Rat(1, 1)],
       [db |-> 1200,  g |-> Rat(3981, 1000)],
       [db |-> 2000,  g |-> Rat(10, 1)] >>

gainToDecibels(gain) ==
    IF ~ RLess(RZero, gain) THEN MinusInfinityDb
    ELSE LET below == {i \in 1..Len(DbGrid) : RLeq(DbGrid[i].g, gain)}
         IN  IF below = {} THEN
                 IF gain = Rat(1, 100000) \/ RLess(gain, Rat(1, 100000))
                 THEN MinusInfinityDb ELSE MinusInfinityDb + 1
             ELSE LET i == CHOOSE k \in below : \A j \in below : j <= k
                  IN  IF DbGrid[i].g = gain THEN DbGrid[i].db
                      ELSE DbGrid[i].db + 1

\* ------------------------------------------------- juce::AudioParameterFloat
\* Normalised (0..1) parameter values are integers in units of
\* 1/(RangeEnd - RangeStart).
NormalisedOne == RangeEnd - RangeStart

jlimit(lo, hi, v) == IF v < lo THEN lo ELSE IF v > hi THEN hi ELSE v

\* AudioParameterFloat::convertTo0to1
convertTo0to1(v) == snapToLegalValue(v) - RangeStart

\* convertFrom0to1 without the clamping of the range (mutation).
convertFrom0to1Unclamped(p) == RangeStart + p

\* AudioParameterFloat::convertFrom0to1
convertFrom0to1(p) == snapToLegalValue(RangeStart + jlimit(0, NormalisedOne, p))

\* AudioParameterFloat::setValue via setValueNotifyingHost: the value stored
\* for a normalised request p.
setValueNotifyingHost(p) == convertFrom0to1(p)

\* AudioParameterFloat::operator= (float): the value stored when newValue is
\* assigned while the parameter holds value.
AssignParameter(value, newValue) ==
    IF value = newValue THEN value
    ELSE setValueNotifyingHost(convertTo0to1(newValue))

\* ------------------------------------------ juce::LinearSmoothedValue<float>
\* A default-constructed linear smoother: everything zero.
NewSmoother ==
    [currentValue |-> RZero, target |-> RZero, step |-> RZero,
     countdown |-> 0, stepsToTarget |-> 0]

isSmoothing(sm) == sm.countdown > 0

setCurrentAndTargetValue(sm, v) ==
    [sm EXCEPT !.target = v, !.currentValue = v, !.countdown = 0]

\* reset (sampleRate, rampLengthInSeconds) with the 0.05 s ramp of
\* prepareToPlay: stepsToTarget = (int) floor (0.05 * sampleRate).
RampSteps(sampleRate) == sampleRate \div 20

reset(sm, sampleRate) ==
    setCurrentAndTargetValue([sm EXCEPT !.stepsToTarget = RampSteps(sampleRate)],
                             sm.target)

\* setTargetValue without the test for an unchanged target: every call
\* starts a ramp afresh (mutation).
setTargetValueRestarting(sm, newValue) ==
    IF sm.stepsToTarget <= 0 THEN setCurrentAndTargetValue(sm, newValue)
    ELSE [sm EXCEPT !.target = newValue,
                    !.countdown = sm.stepsToTarget,
                    !.step = RDivInt(RSub(newValue, sm.currentValue),
                                     sm.stepsToTarget)]

\* setTargetValue (newValue)
setTargetValue(sm, newValue) ==
    IF newValue = sm.target THEN sm
    ELSE IF sm.stepsToTarget <= 0 THEN setCurrentAndTargetValue(sm, newValue)
    ELSE [sm EXCEPT !.target = newValue,
                    !.countdown = sm.stepsToTarget,
                    !.step = RDivInt(RSub(newValue, sm.currentValue),
                                     sm.stepsToTarget)]

\* getNextValue that keeps adding the step on the plateau (mutation).
getNextValueDrifting(sm) ==
    IF ~ isSmoothing(sm) THEN [sm EXCEPT !.currentValue = RAdd(@, sm.step)]
    ELSE IF sm.countdown - 1 > 0
         THEN [sm EXCEPT !.countdown = sm.countdown - 1,
                         !.currentValue = RAdd(sm.currentValue, sm.step)]
         ELSE [sm EXCEPT !.countdown = 0, !.currentValue = sm.target]

\* getNextValue: the smoother after the call ...
getNextValue(sm) ==
    IF ~ isSmoothing(sm) THEN sm
    ELSE IF sm.countdown - 1 > 0
         THEN [sm EXCEPT !.countdown = sm.countdown - 1,
                         !.currentValue = RAdd(sm.currentValue, sm.step)]
         ELSE [sm EXCEPT !.countdown = 0, !.currentValue = sm.target]

\* ... and the value it returns.
getNextValueResult(sm) ==
    IF ~ isSmoothing(sm) THEN sm.target ELSE getNextValue(sm).currentValue

\* ------------------------------------------------------------ input domains
\* Sample rates handed to prepareToPlay: negative, zero, one too small for a
\* whole sample of ramp (ramp lengths -1, 0, 0), and one giving a ramp of 3
\* samples.
SampleRates == {-20, 0, 10, 60}

\* Sample values the host delivers.
InputSamples == {Rat(0, 1), Rat(-2, 1)}

\* Bus layouts a host may propose: <<input channels, output channels>>.
ProposedLayouts == (0..2) \X (0..3)

\* isBusesLayoutSupported: output mono or stereo, input equal to output.
isBusesLayoutSupported(layout) ==
    /\ layout[2] \in {1, 2}
    /\ layout[1] = layout[2]

\* Values the slider can hold (setRange(-60, 12, 0.1)), hundredths of a dB.
SliderValues == {-6000, 0, 1200}

\* Normalised values sent by host automation, some outside 0..1.
HostValues == {-500, 6000, 8000}

\* Saved-state blobs: undecodable, wrong root tag, or a GainMeterState tree
\* whose "gain" property is absent, not a number, or a number.
GainFields == {"absent", "garbage"}
StoredGains == {-9000, 0, 1200, 2500}
StateBlobs ==
    {[kind |-> "undecodable"], [kind |-> "wrongTag"]}
      \cup {[kind |-> "state", field |-> f, gain |-> 0] : f \in GainFields}
      \cup {[kind |-> "state", field |-> "number", gain |-> v] : v \in StoredGains}

\* -------------------------------------------------------------------- state
VARIABLES
    gainParameter,           \* gainParameter->get(), hundredths of a dB
    currentPeakLevel,        \* std::atomic<float> currentPeakLevel, hundredths of a dB
    gainSmoother,            \* juce::LinearSmoothedValue<float> gainSmoother
    totalNumInputChannels,   \* getTotalNumInputChannels()
    totalNumOutputChannels,  \* getTotalNumOutputChannels()
    prepared,                \* prepareToPlay has been called
    pc,                      \* audio thread: "idle", "loop" (inside the sample loops), "store"
    numSamples,              \* buffer.getNumSamples() of the running processBlock
    buffer,                  \* channel -> the samples of the buffer written so far, in frame order
    channel,                 \* loop variable of the outer loop
    sample,                  \* loop variable of the inner loop
    peakLevel,               \* local running maximum of processBlock
    currentGain,             \* local: the value getNextValue returned last
    blocks,                  \* history: processBlock invocations started
    appliedGain,             \* history: channel -> gains applied in this invocation, in frame order
    delivered,               \* history: channel -> input samples read in this invocation, in frame order
    advances,                \* history: getNextValue calls of this invocation
    stores,                  \* history: stores to currentPeakLevel of this invocation
    completed,               \* history: <<>> or <<what the last completed invocation produced>>
    ramp,                    \* history: the ramp begun by the last target change
    lastWrite                \* history: the last write request to the parameter (ParamSpec only)

vars ==
    <<gainParameter, currentPeakLevel, gainSmoother, totalNumInputChannels,
      totalNumOutputChannels, prepared, pc, numSamples, buffer, channel, sample,
      peakLevel, currentGain, blocks, appliedGain, delivered, advances, stores,
      completed, ramp, lastWrite>>

audioLocals == <<numSamples, buffer, channel, sample, peakLevel, currentGain>>
history == <<blocks, appliedGain, delivered, advances, stores, completed, ramp>>
layoutVars == <<totalNumInputChannels, totalNumOutputChannels>>

\* Block sizes the host delivers.
BlockSizes == 0..MaxFrames

\* History of the ramp begun by the last target change: the gain in force at
\* the change (base), the ramp length configured then (steps) and the frames
\* processed since (frames).  A ramp whose frames have all been processed is
\* recorded as NoRamp(target).
NoRamp(v) == [base |-> v, steps |-> 0, frames |-> 0]

StartRamp(from, to, steps) ==
    IF steps <= 0 THEN NoRamp(to) ELSE [base |-> from, steps |-> steps, frames |-> 0]

\* The ramp history after the smoother went from sm to next by a
\* setTargetValue call: a target change starts a new ramp at sm's value.
RampAfter(sm, next) ==
    IF next.target = sm.target THEN ramp
    ELSE StartRamp(sm.currentValue, next.target, sm.stepsToTarget)

\* The ramp history after n more frames have been processed.
RampAdvanced(n) ==
    IF ramp.frames + n >= ramp.steps THEN NoRamp(gainSmoother.target)
    ELSE [ramp EXCEPT !.frames = @ + n]

\* GainMeterAudioProcessor constructor and member initialisers.
Init ==
    /\ gainParameter = DefaultGain
    /\ currentPeakLevel = 0
    /\ gainSmoother = NewSmoother
    /\ totalNumInputChannels = 2
    /\ totalNumOutputChannels = 2
    /\ prepared = FALSE
    /\ pc = "idle"
    /\ numSamples = 0
    /\ buffer = << >>
    /\ channel = 0
    /\ sample = 0
    /\ peakLevel = RZero
    /\ currentGain = RZero
    /\ blocks = 0
    /\ appliedGain = << >>
    /\ delivered = << >>
    /\ advances = 0
    /\ stores = 0
    /\ completed = << >>
    /\ ramp = NoRamp(RZero)
    /\ lastWrite = [kind |-> "none"]

\* The host selects a bus layout the processor accepts (not while processing).
SetBusesLayout(layout) ==
    /\ pc = "idle"
    /\ isBusesLayoutSupported(layout)
    /\ totalNumInputChannels' = layout[1]
    /\ totalNumOutputChannels' = layout[2]
    /\ UNCHANGED <<gainParameter, currentPeakLevel, gainSmoother, prepared, pc>>
    /\ UNCHANGED audioLocals
    /\ UNCHANGED history
    /\ UNCHANGED lastWrite

\* prepareToPlay (sampleRate, samplesPerBlock)
PrepareToPlay(sampleRate) ==
    /\ pc = "idle"
    /\ LET afterReset == reset(gainSmoother, sampleRate)
           next == setTargetValue(afterReset, decibelsToGain(gainParameter))
       IN  /\ gainSmoother' = next
           /\ ramp' = IF next.target = afterReset.target
                      THEN NoRamp(next.target)
                      ELSE RampAfter(afterReset, next)
    /\ prepared' = TRUE
    /\ UNCHANGED <<gainParameter, currentPeakLevel, pc>>
    /\ UNCHANGED layoutVars
    /\ UNCHANGED audioLocals
    /\ UNCHANGED <<blocks, appliedGain, delivered, advances, stores, completed,
                   lastWrite>>

\* ------------------------------------------------------------- processBlock
\* The host's samples do not depend on the processor: the model draws each
\* input sample when the loop reads it, and buffer holds what has been
\* written so far.

\* Unused output channels left holding what the host delivered (mutation).
ClearUnusedOutputsStale(n) ==
    [c \in 0..(totalNumOutputChannels - 1) |->
        IF c >= totalNumInputChannels THEN [s \in 1..n |-> Rat(-2, 1)] ELSE << >>]

\* buffer.clear (i, ...) for every output channel that is not an input
\* channel: the zeros written to a buffer of n frames before the loops.
ClearUnusedOutputs(n) ==
    [c \in 0..(totalNumOutputChannels - 1) |->
        IF c >= totalNumInputChannels THEN [s \in 1..n |-> RZero] ELSE << >>]

\* Where the loops stand once the iteration (ch, s) of a block of n frames is
\* done: the next iteration to run, or past the last channel.
AfterIteration(ch, s, n) ==
    IF s + 1 < n THEN [channel |-> ch, sample |-> s + 1]
    ELSE [channel |-> ch + 1, sample |-> 0]

\* A sample passed through without its gain (mutation).
ScaledSampleBypassed(x, gain) == x

\* channelData[sample] *= currentGain
ScaledSample(x, gain) == RMul(x, gain)

\* A running "maximum" that keeps the last magnitude only (mutation).
TrackPeakLastSample(peak, x) == RAbs(x)

\* peakLevel = jmax (peakLevel, std::abs (channelData[sample]))
TrackPeak(peak, x) == jmax(peak, RAbs(x))

\* Publication without the silence floor (mutation).
PublishedLevelNoFloor(peak) == gainToDecibels(peak)

\* The value stored to currentPeakLevel after the loops.
PublishedLevel(peak) ==
    IF RLess(RZero, peak) THEN gainToDecibels(peak) ELSE -6000

\* Loops that publish the running maximum at every sample (mutation).
LoopPeakSlotStoring ==
    /\ currentPeakLevel' = PublishedLevel(peakLevel')
    /\ stores' = stores + 1

\* The loops keep the running maximum in the local peakLevel only.
LoopPeakSlot == UNCHANGED <<currentPeakLevel, stores>>

\* processBlock up to the loops, for a buffer of n frames: clear unused
\* outputs, read the parameter once, retarget the smoother, reset the
\* running maximum.
ProcessBlockBegin(n) ==
    /\ pc = "idle"
    /\ prepared
    /\ blocks < MaxBlocks
    /\ LET next == setTargetValue(gainSmoother, decibelsToGain(gainParameter))
       IN  /\ gainSmoother' = next
           /\ ramp' = RampAfter(gainSmoother, next)
    /\ numSamples' = n
    /\ buffer' = ClearUnusedOutputs(n)
    /\ peakLevel' = RZero
    /\ channel' = 0
    /\ sample' = 0
    /\ pc' = IF totalNumInputChannels > 0 /\ n > 0 THEN "loop" ELSE "store"
    /\ blocks' = blocks + 1
    /\ appliedGain' = [c \in 0..(totalNumInputChannels - 1) |-> << >>]
    /\ delivered' = [c \in 0..(totalNumInputChannels - 1) |-> << >>]
    /\ advances' = 0
    /\ stores' = 0
    /\ UNCHANGED <<gainParameter, currentPeakLevel, prepared, currentGain,
                   completed, lastWrite>>
    /\ UNCHANGED layoutVars

\* One iteration of the inner loop on the input sample x:
\* channelData[sample] *= getNextValue().
ProcessSample(x) ==
    /\ pc = "loop"
    /\ LET gain == getNextValueResult(gainSmoother)
           out == ScaledSample(x, gain)
           pos == AfterIteration(channel, sample, numSamples)
       IN  /\ gainSmoother' = getNextValue(gainSmoother)
           /\ currentGain' = gain
           /\ buffer' = [buffer EXCEPT ![channel] = Append(@, out)]
           /\ peakLevel' = TrackPeak(peakLevel, out)
           /\ channel' = pos.channel
           /\ sample' = pos.sample
           /\ pc' = IF pos.channel < totalNumInputChannels THEN "loop" ELSE "store"
           /\ appliedGain' = [appliedGain EXCEPT ![channel] = Append(@, gain)]
           /\ delivered' = [delivered EXCEPT ![channel] = Append(@, x)]
    /\ advances' = advances + 1
    /\ LoopPeakSlot
    /\ UNCHANGED <<gainParameter, prepared, numSamples, blocks, completed, ramp,
                   lastWrite>>
    /\ UNCHANGED layoutVars

\* Largest absolute value among the samples of the input channels of buf.
BlockPeak(buf) ==
    LET mags == {RAbs(buf[c][s]) :
                    <<c, s>> \in {cs \in (DOMAIN buf) \X (1..MaxFrames + 1) :
                                     /\ cs[1] < totalNumInputChannels
                                     /\ cs[2] <= Len(buf[cs[1]])}} \cup {RZero}
    IN  CHOOSE m \in mags : \A x \in mags : RLeq(x, m)

\* The peak level of a block whose largest output magnitude is m:
\* 20 log10 (m), with magnitude 0 mapped to the -60 dB floor.
LevelOfPeak(m) == IF m = RZero THEN -6000 ELSE gainToDecibels(m)

\* Every sample written to buf is zero.
AllZero(buf) ==
    \A c \in DOMAIN buf : \A i \in 1..Len(buf[c]) : buf[c][i] = RZero

\* After the loops: the single store to currentPeakLevel, then return.
PublishPeak ==
    /\ pc = "store"
    /\ currentPeakLevel' = PublishedLevel(peakLevel)
    /\ stores' = stores + 1
    /\ completed' = <<[level |-> LevelOfPeak(BlockPeak(buffer)),
                       silent |-> AllZero(buffer)]>>
    /\ ramp' = RampAdvanced(numSamples)
    /\ pc' = "idle"
    /\ numSamples' = 0
    /\ buffer' = << >>
    /\ channel' = 0
    /\ sample' = 0
    /\ peakLevel' = RZero
    /\ currentGain' = RZero
    /\ appliedGain' = << >>
    /\ delivered' = << >>
    /\ advances' = 0
    /\ UNCHANGED <<gainParameter, gainSmoother, prepared, blocks, lastWrite>>
    /\ UNCHANGED layoutVars

\* --------------------------------------------------- writers of the parameter
\* A write stores a value in the parameter and touches nothing else of the
\* processor.
WriteParameter(stored) ==
    /\ gainParameter' = stored
    /\ UNCHANGED <<currentPeakLevel, gainSmoother, prepared, pc>>
    /\ UNCHANGED layoutVars
    /\ UNCHANGED audioLocals
    /\ UNCHANGED history

\* GainMeterAudioProcessorEditor::sliderValueChanged
SliderValueChanged(v) ==
    /\ WriteParameter(AssignParameter(gainParameter, v))
    /\ UNCHANGED lastWrite

\* The host automates the parameter with a normalised value.
HostAutomation(p) ==
    /\ WriteParameter(setValueNotifyingHost(p))
    /\ UNCHANGED lastWrite

\* state.getProperty ("gain", 0.0f) converted to float.
RestoredGain(blob) == IF blob.field = "number" THEN blob.gain ELSE 0

\* setStateInformation: the parameter after restoring from blob.
RestoredParameter(value, blob) ==
    IF blob.kind = "undecodable" THEN value     \* getXmlFromBinary gave nullptr
    ELSE IF blob.kind = "wrongTag" THEN value   \* hasTagName failed
    ELSE AssignParameter(value, RestoredGain(blob))

SetStateInformation(blob) ==
    /\ WriteParameter(RestoredParameter(gainParameter, blob))
    /\ UNCHANGED lastWrite

\* ------------------------------------------------------- readers (UI thread)
\* getGainValue() and getPeakLevel(): what a reader obtains in this state.
getGainValue == gainParameter
getPeakLevel == currentPeakLevel

\* ------------------------------------------------------------- specification
\* The processor with its audio thread, host calls and parameter writers.
Next ==
    \/ \E layout \in ProposedLayouts : SetBusesLayout(layout)
    \/ \E sr \in SampleRates : PrepareToPlay(sr)
    \/ \E n \in BlockSizes : ProcessBlockBegin(n)
    \/ \E x \in InputSamples : ProcessSample(x)
    \/ PublishPeak
    \/ \E v \in SliderValues : SliderValueChanged(v)
    \/ \E p \in HostValues : HostAutomation(p)
    \/ \E blob \in StateBlobs : SetStateInformation(blob)

Spec == Init /\ [][Next]_vars

\* The parameter alone, under its three writers, with each request recorded
\* in lastWrite and a denser set of requests.
ParamSliderValues == {RangeStart + 200 * k : k \in 0..36}
ParamHostValues == {-500, 7700, 8000} \cup {720 * k : k \in 0..10}
ParamStoredGains == {-9000, -6004, -2996, 0, 1196, 1204, 2500}
ParamStateBlobs ==
    {[kind |-> "undecodable"], [kind |-> "wrongTag"]}
      \cup {[kind |-> "state", field |-> f, gain |-> 0] : f \in GainFields}
      \cup {[kind |-> "state", field |-> "number", gain |-> v] : v \in ParamStoredGains}

SliderWrite(v) ==
    /\ WriteParameter(AssignParameter(gainParameter, v))
    /\ lastWrite' = [kind |-> "slider", request |-> v]

HostWrite(p) ==
    /\ WriteParameter(setValueNotifyingHost(p))
    /\ lastWrite' = [kind |-> "host", request |-> p]

RestoreWrite(blob) ==
    /\ WriteParameter(RestoredParameter(gainParameter, blob))
    /\ lastWrite' = [kind |-> "restore", blob |-> blob]

ParamNext ==
    \/ \E v \in ParamSliderValues : SliderWrite(v)
    \/ \E p \in ParamHostValues : HostWrite(p)
    \/ \E blob \in ParamStateBlobs : RestoreWrite(blob)

ParamSpec == Init /\ [][ParamNext]_vars

\* The build with JucePlugin_PreferredChannelConfigurations defined: the
\* constructor declares no buses, isBusesLayoutSupported is compiled out, and
\* the host picks among the configured <<inputs, outputs>> pairs.
PreferredChannelConfigurations == {<<1, 2>>, <<2, 2>>}

SetPreferredLayout(layout) ==
    /\ pc = "idle"
    /\ totalNumInputChannels' = layout[1]
    /\ totalNumOutputChannels' = layout[2]
    /\ UNCHANGED <<gainParameter, currentPeakLevel, gainSmoother, prepared, pc>>
    /\ UNCHANGED audioLocals
    /\ UNCHANGED history
    /\ UNCHANGED lastWrite

ConfiguredNext ==
    \/ \E layout \in PreferredChannelConfigurations : SetPreferredLayout(layout)
    \/ \E sr \in SampleRates : PrepareToPlay(sr)
    \/ \E n \in BlockSizes : ProcessBlockBegin(n)
    \/ \E x \in InputSamples : ProcessSample(x)
    \/ PublishPeak
    \/ \E v \in SliderValues : SliderValueChanged(v)
    \/ \E p \in HostValues : HostAutomation(p)
    \/ \E blob \in StateBlobs : SetStateInformation(blob)

ConfiguredSpec == Init /\ [][ConfiguredNext]_vars

\* =================================================================== claims
\* Linear gains of the ends of the parameter range.
SmallestGain == decibelsToGain(RangeStart)
LargestGain == decibelsToGain(RangeEnd)

\* C1: when the loops of processBlock are done, every input channel has been
\* given the same gain at every frame, and the smoother has been advanced
\* exactly once per frame of the block.
C1_OneGainPerFrame ==
    pc = "store" =>
        /\ advances = numSamples
        /\ \A c1, c2 \in DOMAIN appliedGain : appliedGain[c1] = appliedGain[c2]

\* The gain the k-th frame after the last target change is due: k equal
\* steps from the gain in force at the change towards the target, the target
\* itself from the ramp-length-th frame on.
RampGain(k) ==
    IF k >= ramp.steps THEN gainSmoother.target
    ELSE RAdd(ramp.base,
              RDivInt(Rat(k * RSub(gainSmoother.target, ramp.base).n,
                          RSub(gainSmoother.target, ramp.base).d),
                      ramp.steps))

\* C2: while the parameter stays fixed after a change, the gain applied to
\* the k-th frame processed since the change, on every channel and in
\* whichever block the frame falls, is the k-th point of the linear ramp from
\* the gain in force at the change to the new target, and is the target from
\* the ramp-length-th frame on.
C2_LinearRampPerFrame ==
    pc \in {"loop", "store"} =>
        \A c \in DOMAIN appliedGain : \A i \in 1..Len(appliedGain[c]) :
            appliedGain[c][i] = RampGain(ramp.frames + i)

\* C3: with a ramp of at least one sample configured, no step of the audio
\* thread (retargeting at the start of a block, or advancing the smoother)
\* moves the smoothed gain by more than (largest gain - smallest gain) / ramp
\* length.
C3_BoundedIncrement ==
    [][(pc # "idle" \/ pc' # "idle") /\ gainSmoother.stepsToTarget > 0 =>
          LET delta == RAbs(RSub(gainSmoother'.currentValue,
                                 gainSmoother.currentValue))
          IN  RLeq(Rat(delta.n * gainSmoother.stepsToTarget, delta.d),
                   RSub(LargestGain, SmallestGain))]_vars

\* C4: a getNextValue call made when the countdown is zero returns exactly
\* the target and leaves the smoother as it was; and whenever the countdown
\* is zero the current value is the target.
C4_Plateau ==
    [][/\ gainSmoother.countdown = 0 =>
              gainSmoother.currentValue = gainSmoother.target
       /\ gainSmoother'.countdown = 0 =>
              gainSmoother'.currentValue = gainSmoother'.target
       /\ advances' = advances + 1 /\ gainSmoother.countdown = 0 =>
              /\ currentGain' = gainSmoother.target
              /\ gainSmoother' = gainSmoother]_vars

\* Two successive getNextValue calls of one block returned the (non-zero)
\* target: the second was made on the plateau.
C4_Witness ==
    /\ pc # "idle"
    /\ Len(appliedGain[0]) >= 2
    /\ gainSmoother.target # RZero
    /\ appliedGain[0][1] = gainSmoother.target
    /\ appliedGain[0][2] = gainSmoother.target

\* C5: whatever getPeakLevel returns lies in [-60 dB, +12 dB].
C5_PeakInRange == getPeakLevel >= -6000 /\ getPeakLevel <= 1200

\* C6: after an invocation whose output samples were all zero (a block of
\* zero frames included), getPeakLevel returns exactly -60 dB.
C6_SilenceIsFloor ==
    (completed # << >> /\ completed[1].silent) => getPeakLevel = -6000

\* A block with frames, scaled by a non-zero gain, came out all zero and has
\* been published.
C6_Witness ==
    /\ pc = "idle"
    /\ completed # << >>
    /\ completed[1].silent
    /\ stores = 1
    /\ gainSmoother.currentValue # RZero
    /\ getPeakLevel = -6000

\* C7: the published slot changes only in the store that ends an invocation;
\* an invocation stores exactly once, after its loops; so a reader in the
\* middle of an invocation still reads what the previous one published.
C7_SingleStore ==
    [][/\ currentPeakLevel' # currentPeakLevel => pc = "store" /\ pc' = "idle"
       /\ pc # "idle" => stores = 0
       /\ pc # "idle" /\ pc' = "idle" => stores' = 1]_vars

\* Mid-invocation, after an earlier invocation has published: the running
\* maximum would publish a different level than the one a reader gets.
C7_Witness ==
    /\ pc = "loop"
    /\ completed # << >>
    /\ stores = 0
    /\ PublishedLevel(peakLevel) # getPeakLevel
    /\ RLess(RZero, peakLevel)

\* C8 as stated: in every reachable state getPeakLevel returns the peak level
\* of the output of the most recently completed invocation.
C8_AlwaysCompletedBlock ==
    completed # << >> /\ getPeakLevel = completed[1].level

\* C8 amended: once an invocation has completed, getPeakLevel returns the
\* peak level of the whole output block of the most recently completed
\* invocation; before that it returns the initial 0.0.
C8_CompletedBlockOnceRun ==
    /\ completed # << >> => getPeakLevel = completed[1].level
    /\ completed = << >> => getPeakLevel = 0

\* A second invocation is under way with a running maximum that would publish
\* something else than the completed block's level, which is what is read.
C8_Witness ==
    /\ blocks = 2
    /\ pc = "store"
    /\ completed # << >>
    /\ getPeakLevel = completed[1].level
    /\ PublishedLevel(peakLevel) # completed[1].level

\* A saved state that does not yield a gain: undecodable blob, wrong root
\* tag, or a GainMeterState tree without a numeric "gain".
IsCorrupt(blob) ==
    \/ blob.kind \in {"undecodable", "wrongTag"}
    \/ blob.field \in GainFields

\* C9: right after setStateInformation on corrupt, malformed or missing state
\* data, the gain parameter is exactly 0.0 dB.
C9_CorruptRestoresDefault ==
    (lastWrite.kind = "restore" /\ IsCorrupt(lastWrite.blob)) =>
        gainParameter = 0

\* The decibel value a write asked for, when it asked for one.
RequestsDb(w) ==
    \/ w.kind = "slider"
    \/ w.kind = "restore" /\ ~ IsCorrupt(w.blob)

RequestedDb(w) == IF w.kind = "slider" THEN w.request ELSE w.blob.gain

\* C10: the stored gain is always within [-60 dB, +12 dB], and a request
\* beyond an end of the range (in decibels from the editor or a saved state,
\* normalised from the host) has stored that end.
C10_StoredGainInRange ==
    /\ gainParameter >= -6000
    /\ gainParameter <= 1200
    /\ (RequestsDb(lastWrite) /\ RequestedDb(lastWrite) > 1200) =>
           gainParameter = 1200
    /\ (RequestsDb(lastWrite) /\ RequestedDb(lastWrite) < -6000) =>
           gainParameter = -6000
    /\ (lastWrite.kind = "host" /\ lastWrite.request > 7200) =>
           gainParameter = 1200
    /\ (lastWrite.kind = "host" /\ lastWrite.request < 0) =>
           gainParameter = -6000

\* A saved state asking for +25 dB has just been restored as +12 dB.
C10_Witness ==
    /\ lastWrite.kind = "restore"
    /\ ~ IsCorrupt(lastWrite.blob)
    /\ lastWrite.blob.gain = 2500
    /\ gainParameter = 1200

\* C11: once prepareToPlay has been called, whatever sample rate it was
\* given, the ramp length of the smoother is at least one sample, so that no
\* target change is applied as an immediate jump.
C11_RampAtLeastOneSample == prepared => gainSmoother.stepsToTarget >= 1

\* C12: when prepareToPlay returns, the smoother's current value and target
\* both equal the linear gain of the parameter and no ramp is in progress, on
\* a fresh instance and on reconfiguration after a parameter change alike.
\* (A prepareToPlay call that leaves the state as it was found the smoother
\* settled on that gain already.)
C12_PreparedAtTarget ==
    [][(/\ pc = "idle"
        /\ pc' = "idle"
        /\ prepared'
        /\ (gainSmoother' # gainSmoother \/ ~ prepared)) =>
          /\ gainSmoother'.currentValue = decibelsToGain(gainParameter')
          /\ gainSmoother'.target = decibelsToGain(gainParameter')
          /\ gainSmoother'.countdown = 0]_vars

\* C13: from the clearing at the start of processBlock until it returns,
\* every output channel whose index is not below the number of input channels
\* holds a zero at every frame of the block; such a channel is given no gain
\* (the smoother is advanced for the samples of the input channels only) and
\* the running maximum is the largest magnitude among the input channels.
C13_UnusedOutputsSilent ==
    pc \in {"loop", "store"} =>
        /\ \A c \in totalNumInputChannels..(totalNumOutputChannels - 1) :
              /\ Len(buffer[c]) = numSamples
              /\ \A i \in 1..Len(buffer[c]) : buffer[c][i] = RZero
              /\ c \notin DOMAIN appliedGain
        /\ pc = "store" => advances = totalNumInputChannels * numSamples
        /\ peakLevel = BlockPeak(buffer)

\* The loops are done on a 2-frame block with one input and two output
\* channels, and the input channel carries a non-zero peak.
C13_Witness ==
    /\ pc = "store"
    /\ totalNumInputChannels = 1
    /\ totalNumOutputChannels = 2
    /\ numSamples = 2
    /\ Len(buffer[1]) = 2
    /\ RLess(RZero, peakLevel)

\* Largest magnitude among the input samples read so far in this invocation,
\* each multiplied by the gain applied to it; 0 when none has been read.
PostGainPeak ==
    LET mags == {RAbs(RMul(delivered[c][i], appliedGain[c][i])) :
                    <<c, i>> \in {ci \in (DOMAIN delivered) \X (1..MaxFrames + 1) :
                                     ci[2] <= Len(delivered[ci[1]])}} \cup {RZero}
    IN  CHOOSE m \in mags : \A x \in mags : RLeq(x, m)

\* C14: throughout the loops every sample written is the input sample times
\* the gain applied to it, and the running maximum is the largest magnitude
\* of those products so far; when the loops are done every frame of every
\* input channel has been read, so that the level the store publishes,
\* PublishedLevel(peakLevel), is derived from the maximum over all input
\* channels and all frames of the block.
C14_PeakOverAllSamples ==
    pc \in {"loop", "store"} =>
        /\ DOMAIN delivered = 0..(totalNumInputChannels - 1)
        /\ \A c \in DOMAIN delivered : \A i \in 1..Len(delivered[c]) :
              buffer[c][i] = RMul(delivered[c][i], appliedGain[c][i])
        /\ peakLevel = PostGainPeak
        /\ pc = "store" =>
              /\ \A c \in DOMAIN delivered : Len(delivered[c]) = numSamples
              /\ PublishedLevel(peakLevel) = LevelOfPeak(PostGainPeak)

\* A 2-frame stereo block whose only non-zero input was the first frame of
\* the second channel, scaled by a gain other than 1: the running maximum is
\* that product, not the last sample processed.
C14_Witness ==
    /\ pc = "store"
    /\ totalNumInputChannels = 2
    /\ numSamples = 2
    /\ delivered[0] = <<RZero, RZero>>
    /\ delivered[1][1] # RZero
    /\ delivered[1][2] = RZero
    /\ appliedGain[1][1] # Rat(1, 1)
    /\ peakLevel = RAbs(RMul(delivered[1][1], appliedGain[1][1]))

====
